---- MODULE Spec2Model ----
(***************************************************************************)
(* Model of the autopr pipeline (crates/autopr/src/main.rs) and of the     *)
(* git / forge / generation helpers it calls (crates/autocommit-core).     *)
(* External commands (git, gh, the HTTP call, the operator at the          *)
(* terminal) are the environment: each call draws its outcome from a       *)
(* small set.                                                              *)
(***************************************************************************)
EXTENDS Integers, Sequences, FiniteSets, TLC

\* ------------------------------------------------------------------ bounds
\* Cap on the number of generation calls of one run (the code has none).
MaxGenCalls == 3

\* ------------------------------------------------------- Option<T> values
None == <<>>
Some(x) == <<x>>
IsSome(o) == o # <<>>
unwrap_or(o, d) == IF o = <<>> THEN d ELSE o[1]

\* ------------------------------------------------------------ text values
\* A string is a sequence of one-character strings.
IsWhite(c) == c = " "

RECURSIVE trim_start(_)
trim_start(s) ==
  IF s = <<>> THEN <<>>
  ELSE IF IsWhite(Head(s)) THEN trim_start(Tail(s)) ELSE s

RECURSIVE trim_end(_)
trim_end(s) ==
  IF s = <<>> THEN <<>>
  ELSE IF IsWhite(s[Len(s)]) THEN trim_end(SubSeq(s, 1, Len(s) - 1)) ELSE s

trim(s) == trim_end(trim_start(s))

lower_char(c) ==
  CASE c = "Y" -> "y"
    [] c = "E" -> "e"
    [] c = "S" -> "s"
    [] c = "N" -> "n"
    [] c = "O" -> "o"
    [] OTHER -> c

to_lowercase(s) == [i \in 1..Len(s) |-> lower_char(s[i])]

\* What the operator may type at a prompt.
OperatorInputs ==
  { <<>>,
    <<"y">>, <<"Y">>, <<"y", "e", "s">>, <<" ", "Y", "e", "s", " ">>,
    <<"n">>, <<"n", "o">>, <<"N", "O">>, <<" ", "n", " ">>,
    <<" ">>,
    <<"f", "i", "x">>, <<"n", "o", "p", "e">> }

\* ------------------------------------------------------------- PRContent
PRContent(t, b, nc, q) ==
  [title |-> t, body |-> b, needs_clarification |-> nc,
   clarification_question |-> q]

\* The value of pr_content before the first generation has returned.
NoContent == PRContent("", "", None, None)

Versions == {"1", "2"}
ClarFlags == {None, Some(TRUE), Some(FALSE)}
Questions == {None, Some("q1")}

\* The text the model returns: a JSON object (with the fields it carries),
\* a JSON object wrapped in a code fence, or prose.
ResponseText(fmt, t, b, nc, q) ==
  [fmt |-> fmt, title |-> t, body |-> b, needsClarification |-> nc,
   clarificationQuestion |-> q]

ResponseTexts ==
  { ResponseText("json", Some("t" \o v), Some("b" \o v), nc, q) :
      v \in Versions, nc \in ClarFlags, q \in Questions }
  \cup { ResponseText("prose", None, None, None, None),
         ResponseText("fenced", Some("t1"), Some("b1"), Some(FALSE), None),
         ResponseText("json", Some("t1"), None, Some(FALSE), None),
         ResponseText("json", None, Some("b1"), None, None) }

\* serde_json::from_str::<PRContent>: title and body are required, the two
\* optional fields default to None.
decode_mut_lenient(text) ==
  Some(PRContent(unwrap_or(text.title, ""), unwrap_or(text.body, ""),
                 text.needsClarification, text.clarificationQuestion))

decode(text) ==
  IF text.fmt = "json" /\ IsSome(text.title) /\ IsSome(text.body)
  THEN Some(PRContent(text.title[1], text.body[1],
                      text.needsClarification, text.clarificationQuestion))
  ELSE None

\* ----------------------------------------------------------------- errors
Err(kind, what, raw) == [kind |-> kind, what |-> what, raw |-> raw]
NoRaw == <<>>

\* ------------------------------------------------------------ lock files
\* A path is the sequence of its '/'-separated segments.
EXCLUDED_LOCK_FILES ==
  { "package-lock.json", "bun.lock", "bun.lockb", "yarn.lock",
    "pnpm-lock.yaml", "Gemfile.lock", "Cargo.lock", "poetry.lock",
    "composer.lock", "go.sum", "Pipfile.lock", "npm-shrinkwrap.json",
    "deno.lock", "flake.lock", "pdm.lock", "uv.lock" }

basename_mut_first(file) == IF file = <<>> THEN "" ELSE file[1]

basename(file) == IF file = <<>> THEN "" ELSE file[Len(file)]

RECURSIVE filter_lock_files(_)
filter_lock_files(files) ==
  IF files = <<>> THEN <<>>
  ELSE IF basename(Head(files)) \in EXCLUDED_LOCK_FILES
       THEN filter_lock_files(Tail(files))
       ELSE <<Head(files)>> \o filter_lock_files(Tail(files))

\* What `git diff --name-only` may list.
FileLists ==
  { <<>>,
    << <<"backend", "Cargo.lock">> >>,
    << <<"src", "main.rs">>, <<"yarn.lock">>, <<"README.md">> >> }

\* ------------------------------------------------------------ Result<T>
NoErr == Err("", "", NoRaw)
Ok(v) == [ok |-> TRUE, val |-> v, err |-> NoErr]
Fail(e) == [ok |-> FALSE, val |-> None, err |-> e]

\* ------------------------------------------------- git and gh (git.rs)
\* run_git / run_gh: "fail" stands for a non-zero exit (Error::Git) and any
\* other outcome for the captured standard output.
run_cmd(line, outcome) ==
  IF outcome = "fail" THEN Fail(Err("Git", line, NoRaw)) ELSE Ok(outcome)

BranchNames == {"feat", "main"}

\* `git branch --show-current` prints nothing on a detached HEAD.
CurrentBranchOutcomes == {"fail", ""} \cup BranchNames

get_current_branch(outcome) == run_cmd("git branch --show-current", outcome)

\* `git remote show origin`: fails, prints no "HEAD branch:" line, or names
\* the branch.
RemoteShowOutcomes == {"fail", "no-head-line", "main", "develop"}

get_default_branch_mut_propagate(outcome) ==
  IF outcome = "fail" THEN Fail(Err("Git", "git remote show origin", NoRaw))
  ELSE IF outcome = "no-head-line" THEN Ok("main")
  ELSE Ok(outcome)

get_default_branch(outcome) ==
  IF outcome = "fail" THEN Ok("main")
  ELSE IF outcome = "no-head-line" THEN Ok("main")
  ELSE Ok(outcome)

\* `gh pr view --json url --jq .url`
PrViewOutcomes == {"fail", "", "https://pr/1"}

get_existing_pr_mut_propagate(outcome) ==
  LET r == run_cmd("gh pr view", outcome)
  IN IF ~r.ok THEN Fail(r.err)
     ELSE IF r.val # "" THEN Ok(Some(r.val)) ELSE Ok(None)

get_existing_pr(outcome) ==
  LET r == run_cmd("gh pr view", outcome)
  IN IF r.ok /\ r.val # "" THEN Ok(Some(r.val)) ELSE Ok(None)

\* `git ls-remote --exit-code --heads origin <branch>`
LsRemoteOutcomes == {"fail", "refs/heads"}

remote_branch_exists(branchOutcome, lsOutcome) ==
  LET b == get_current_branch(branchOutcome)
  IN IF ~b.ok THEN Fail(b.err)
     ELSE Ok(run_cmd("git ls-remote", lsOutcome).ok)

\* `git status -sb`: the outcome says whether the text contains "ahead".
StatusOutcomes == {"fail", "ahead", "in-sync"}

check_unpushed_commits(outcome) ==
  LET r == run_cmd("git status -sb", outcome)
  IN IF r.ok THEN Ok(r.val = "ahead") ELSE Ok(FALSE)

PushOutcomes == {"fail", "pushed"}

push_branch(branchOutcome, pushOutcome) ==
  LET b == get_current_branch(branchOutcome)
  IN IF ~b.ok THEN Fail(b.err)
     ELSE LET r == run_cmd("git push -u origin", pushOutcome)
          IN IF r.ok THEN Ok("unit") ELSE Fail(r.err)

\* main.rs lines 69-75: what follows the existing-PR lookup
after_existing_pr_mut_ignore(found, dry) ==
  IF ~dry THEN "remote_exists" ELSE "gather"

after_existing_pr(found, dry) ==
  IF IsSome(found) THEN "return"
  ELSE IF ~dry THEN "remote_exists" ELSE "gather"

\* main.rs line 61: the guard against opening a PR from the base branch
on_base_branch_mut_never(current, base) == FALSE

on_base_branch(current, base) == current = base

\* main.rs line 98: changed_files.is_empty()
no_changes_mut_never(files) == FALSE

no_changes(files) == files = <<>>

\* main.rs line 79
push_needed_mut_and(remote_exists, has_unpushed) ==
  ~remote_exists /\ has_unpushed

push_needed(remote_exists, has_unpushed) == ~remote_exists \/ has_unpushed

\* The three comparisons against the base branch.
Gatherers == {"commits", "diff", "files"}

GitCmd(sub, range, base, window, name_only, exclusions) ==
  [sub |-> sub, range |-> range, base |-> base, window |-> window,
   name_only |-> name_only, exclusions |-> exclusions]

CmdLine(cmd) ==
  "git " \o cmd.sub \o " " \o cmd.range \o " " \o ToString(cmd.window)

COMMITS_FALLBACK_WINDOW == 10
DIFF_FALLBACK_WINDOW == 5

PrimaryCmd(g, base) ==
  CASE g = "commits" -> GitCmd("log", "two-dot", base, 0, FALSE, FALSE)
    [] g = "diff" -> GitCmd("diff", "three-dot", base, 0, FALSE, TRUE)
    [] g = "files" -> GitCmd("diff", "three-dot", base, 0, TRUE, FALSE)

FallbackCmd_mut_same_window(g) ==
  CASE g = "commits" ->
         GitCmd("log", "none", "", DIFF_FALLBACK_WINDOW, FALSE, FALSE)
    [] g = "diff" ->
         GitCmd("diff", "none", "", DIFF_FALLBACK_WINDOW, FALSE, TRUE)
    [] g = "files" ->
         GitCmd("diff", "none", "", DIFF_FALLBACK_WINDOW, TRUE, FALSE)

FallbackCmd(g) ==
  CASE g = "commits" ->
         GitCmd("log", "none", "", COMMITS_FALLBACK_WINDOW, FALSE, FALSE)
    [] g = "diff" ->
         GitCmd("diff", "none", "", DIFF_FALLBACK_WINDOW, FALSE, TRUE)
    [] g = "files" ->
         GitCmd("diff", "none", "", DIFF_FALLBACK_WINDOW, TRUE, FALSE)

CreateOutcomes == {"fail", "https://pr/2"}

create_pr(title, body, base_br, head_br, outcome) ==
  run_cmd("gh pr create", outcome)

\* PR template probing (main.rs get_pr_template)
template_paths ==
  << ".github/PULL_REQUEST_TEMPLATE.md", ".github/pull_request_template.md",
     "PULL_REQUEST_TEMPLATE.md", "pull_request_template.md" >>

\* --------------------------------------- generation (anthropic.rs)
\* The prompt generate_pr_content builds: update mode when an existing
\* PRContent is supplied, new-PR mode otherwise.
Prompt(mode, cur_title, cur_body, feedback, context, tmpl, files, commits, diff) ==
  [mode |-> mode, cur_title |-> cur_title, cur_body |-> cur_body,
   feedback |-> feedback, context |-> context, template |-> tmpl,
   files |-> files, commits |-> commits, diff |-> diff]

build_prompt_mut_always_update(commits, diff, files, tmpl, additional_context, existing_pr) ==
  Prompt("update", Some(unwrap_or(existing_pr, NoContent).title),
         Some(unwrap_or(existing_pr, NoContent).body),
         Some(unwrap_or(additional_context, <<>>)),
         None, None, <<>>, "", "")

build_prompt(commits, diff, files, tmpl, additional_context, existing_pr) ==
  IF IsSome(existing_pr)
  THEN Prompt("update", Some(existing_pr[1].title), Some(existing_pr[1].body),
              Some(unwrap_or(additional_context, <<>>)),
              None, None, <<>>, "", "")
  ELSE Prompt("new", None, None, None,
              additional_context, tmpl, files, commits, diff)

\* What the remote call may do: the request does not go through, the
\* status is not a success, the body is not a MessageResponse, the content
\* list is empty, or a text block comes back.
TransportFailures == {"send-error", "bad-status", "bad-body", "empty-content"}

RemoteOutcomes ==
  { [transport |-> f, text |-> None] : f \in TransportFailures }
  \cup { [transport |-> "ok", text |-> Some(t)] : t \in ResponseTexts }

send_message(outcome) ==
  IF outcome.transport \in {"send-error", "bad-body"}
  THEN Fail(Err("Http", outcome.transport, NoRaw))
  ELSE IF outcome.transport \in {"bad-status", "empty-content"}
  THEN Fail(Err("Api", outcome.transport, NoRaw))
  ELSE Ok(outcome.text[1])

\* send_message followed by the decode of its text.
generate_pr_content(outcome) ==
  LET r == send_message(outcome)
  IN IF ~r.ok THEN Fail(r.err)
     ELSE LET d == decode(r.val)
          IN IF IsSome(d) THEN Ok(d[1])
             ELSE Fail(Err("Api", "parse", Some(r.val)))

\* ------------------------------------------- the operator (main.rs)
\* main.rs lines 127-128: the clarification loop asks while the flag is
\* set and a question is present.
clarification_pending(c) ==
  unwrap_or(c.needs_clarification, FALSE) /\ IsSome(c.clarification_question)

\* main.rs lines 179-186: the branch taken for a reply ("accept" leaves the
\* loop for the creation, "cancel" returns, "revise" updates the content)
classify_mut_raw(response) ==
  IF response = <<"y">> \/ response = <<"y", "e", "s">> \/ response = <<>>
  THEN "accept"
  ELSE IF response = <<"n">> \/ response = <<"n", "o">>
  THEN "cancel"
  ELSE "revise"

classify_mut_cancel_breaks(response) ==
  LET response_lower == to_lowercase(trim(response))
  IN IF response_lower = <<"y">> \/ response_lower = <<"y", "e", "s">>
        \/ response = <<>>
     THEN "accept"
     ELSE IF response_lower = <<"n">> \/ response_lower = <<"n", "o">>
     THEN "accept"
     ELSE "revise"

classify_mut_no_cancel(response) ==
  LET response_lower == to_lowercase(trim(response))
  IN IF response_lower = <<"y">> \/ response_lower = <<"y", "e", "s">>
        \/ response = <<>>
     THEN "accept"
     ELSE IF response_lower = <<"n">>
     THEN "cancel"
     ELSE "revise"

classify(response) ==
  LET response_lower == to_lowercase(trim(response))
  IN IF response_lower = <<"y">> \/ response_lower = <<"y", "e", "s">>
        \/ response = <<>>
     THEN "accept"
     ELSE IF response_lower = <<"n">> \/ response_lower = <<"n", "o">>
     THEN "cancel"
     ELSE "revise"

\* main.rs line 138: the operator gave no answer
proceed_without_context_mut_keep(c) == c

proceed_without_context_mut_ask_again(c) ==
  [c EXCEPT !.needs_clarification = Some(TRUE)]

proceed_without_context(c) == [c EXCEPT !.needs_clarification = Some(FALSE)]

\* main.rs lines 165-171: what follows the preview
after_preview_mut_prompt_first(dry, y) ==
  IF ~y THEN "decide" ELSE IF dry THEN "exit" ELSE "create"

after_preview_mut_always_decide(dry, y) ==
  IF dry THEN "exit" ELSE "decide"

after_preview(dry, y) ==
  IF dry THEN "exit" ELSE IF ~y THEN "decide" ELSE "create"

\* What Input::interact_text may return: a read error or a line.
OperatorReads ==
  { [ok |-> FALSE, text |-> <<>>] }
  \cup { [ok |-> TRUE, text |-> t] : t \in OperatorInputs }

ReadError == Err("User", "Failed to read input", NoRaw)

\* ------------------------------------------------------------------ state
VARIABLES
  dry_run,          \* cli.dry_run
  yes,              \* cli.yes
  pc,               \* position of run()
  result,           \* what run() returned
  current_branch, base_branch,
  existing_pr,      \* what get_existing_pr returned
  remote_exists, has_unpushed,   \* locals of the push block
  pushCalls,        \* calls of push_branch
  pushed,           \* the push command succeeded
  gpc,              \* position of each of the three comparisons
  gcmds,            \* the git commands each comparison has run
  gprimary,         \* how each comparison's first command ended
  gout,             \* which command each comparison's output comes from
  gfiles,           \* the file list get_changed_files returned
  tpc,              \* next template path to probe
  template,
  commits, diff, changed_files,
  pr_content,
  prompt,           \* the prompt of the generation call in flight
  response_text,    \* the text send_message returned, until it is decoded
  genCalls,         \* generation calls made
  answer,           \* the clarification answer read, until its round ends
  response,         \* the reply read at the decision prompt, likewise
  createCalls,      \* calls of create_pr
  createArgs,       \* arguments of the create_pr call
  last_call,        \* the external call the latest step of run() awaited
  staged_output,    \* autocommit: the lines `git diff --staged` printed
  staged_files,     \* autocommit: what get_staged_files returned
  raw_diff,         \* autocommit: what get_staged_diff returned
  commit_diff,      \* autocommit: (diff, was_truncated) of truncate_diff
  commit_message,   \* autocommit: what generate_commit_message returned
  messageCalls,     \* autocommit: calls of generate_commit_message
  commitCalls,      \* autocommit: calls of git_commit
  call,             \* utils.rs: the function applied and its arguments
  ret               \* utils.rs: what the function returned

vars ==
  << dry_run, yes, pc, result, current_branch, base_branch, existing_pr,
     remote_exists, has_unpushed, pushCalls, pushed, gpc, gcmds, gprimary,
     gout, gfiles, tpc, template, commits, diff, changed_files, pr_content,
     prompt, response_text, genCalls, answer, response, createCalls,
     createArgs, last_call, staged_output, staged_files, raw_diff, commit_diff,
     commit_message, messageCalls, commitCalls, call, ret >>

cliVars == << dry_run, yes >>
branchVars == << current_branch, base_branch >>
pushVars == << remote_exists, has_unpushed, pushCalls, pushed >>
futureVars == << gpc, gcmds, gprimary, gout, gfiles, tpc >>
gatherVars == << futureVars, template, commits, diff, changed_files >>
genVars == << pr_content, prompt, response_text, genCalls >>
operatorVars == << answer, response >>
createVars == << createCalls, createArgs >>
prVars ==
  << branchVars, existing_pr, pushVars, gatherVars, genVars,
     operatorVars, createVars >>
commitVars ==
  << staged_output, staged_files, raw_diff, commit_diff, commit_message,
     messageCalls,
     commitCalls >>
utilVars == << call, ret >>

\* An external call and how it ended: "fail", or what it printed.
Call(cmd, out) == [cmd |-> cmd, out |-> out]
NoCall == Call("", "")

Running == [status |-> "running", outcome |-> "", output |-> "", err |-> NoErr]
Success(outcome, output) ==
  [status |-> "ok", outcome |-> outcome, output |-> output, err |-> NoErr]
Failure(e) == [status |-> "err", outcome |-> "", output |-> "", err |-> e]
\* run() ended in a panic.
Aborted == [status |-> "panic", outcome |-> "", output |-> "", err |-> NoErr]

NoArgs == [title |-> "", body |-> "", base |-> "", head |-> ""]

IdleFutures ==
  /\ gpc = [g \in Gatherers |-> "idle"]
  /\ gcmds = [g \in Gatherers |-> <<>>]
  /\ gprimary = [g \in Gatherers |-> "none"]
  /\ gout = [g \in Gatherers |-> "none"]
  /\ gfiles = <<>>
  /\ tpc = 0

\* The variables of autopr's run() before it has started.
PrIdle ==
  /\ current_branch = ""
  /\ base_branch = ""
  /\ existing_pr = None
  /\ remote_exists = None
  /\ has_unpushed = None
  /\ pushCalls = 0
  /\ pushed = FALSE
  /\ IdleFutures
  /\ template = None
  /\ commits = ""
  /\ diff = ""
  /\ changed_files = <<>>
  /\ pr_content = NoContent
  /\ prompt = None
  /\ response_text = None
  /\ genCalls = 0
  /\ answer = None
  /\ response = None
  /\ createCalls = 0
  /\ createArgs = NoArgs

\* The variables of autocommit's run() before it has started.
CommitIdle ==
  /\ staged_output = None
  /\ staged_files = <<>>
  /\ raw_diff = None
  /\ commit_diff = None
  /\ commit_message = None
  /\ messageCalls = 0
  /\ commitCalls = 0

UtilIdle ==
  /\ call = [fn |-> "", files |-> <<>>, diff |-> <<>>, max_size |-> 0,
             round |-> 1]
  /\ ret = None

Init ==
  /\ dry_run \in BOOLEAN
  /\ yes \in BOOLEAN
  /\ pc = "config"
  /\ result = Running
  /\ last_call = NoCall
  /\ PrIdle
  /\ CommitIdle
  /\ UtilIdle

\* run() returns: `return Ok(())`, `return Err(..)` or a `?` that fails.
Return(r) ==
  /\ pc' = "done"
  /\ result' = r

Goto(l) ==
  /\ pc' = l
  /\ UNCHANGED result

\* -------------------------------------------------------- diff texts
\* A diff text is a sequence of runs, each n >= 1 repetitions of one
\* character; a character outside ASCII is named by its code point.
Run(ch, n) == [ch |-> ch, n |-> n]

\* char::len_utf8
utf8_len(ch) ==
  CASE ch = "U+00E9" -> 2
    [] ch = "U+20AC" -> 3
    [] OTHER -> 1

\* str::len: the length in bytes
RECURSIVE len(_)
len(text) ==
  IF text = <<>> THEN 0
  ELSE utf8_len(Head(text).ch) * Head(text).n + len(Tail(text))

\* &text[..end]: Some(prefix), or None where the slice panics (end is past
\* the text or falls inside a character).
RECURSIVE slice_to(_, _)
slice_to(text, end) ==
  IF end = 0 THEN Some(<<>>)
  ELSE IF text = <<>> THEN None
  ELSE LET r == Head(text)
           w == utf8_len(r.ch)
       IN IF w * r.n <= end
          THEN LET rest == slice_to(Tail(text), end - w * r.n)
               IN IF rest = None THEN None ELSE Some(<<r>> \o rest[1])
          ELSE IF end % w = 0 THEN Some(<< Run(r.ch, end \div w) >>)
          ELSE None

\* A literal: one run per character.
Chars(s) == [i \in 1..Len(s) |-> Run(s[i], 1)]

Digit(k) == << "0", "1", "2", "3", "4", "5", "6", "7", "8", "9" >>[k + 1]

\* Display of a usize
RECURSIVE to_string(_)
to_string(n) ==
  IF n < 10 THEN << Digit(n) >>
  ELSE to_string(n \div 10) \o << Digit(n % 10) >>

\* The two literal parts of the format string of truncate_diff.
MarkerLead ==
  << "\n", "\n", ".", ".", ".", " ", "(", "d", "i", "f", "f", " ", "t", "r",
     "u", "n", "c", "a", "t", "e", "d", ",", " " >>
MarkerTrail ==
  << " ", "c", "h", "a", "r", "a", "c", "t", "e", "r", "s", " ", "o", "m",
     "i", "t", "t", "e", "d", ")" >>

\* A call returns a value or panics.
Returned(v) == [panicked |-> FALSE, val |-> v]
Panicked == [panicked |-> TRUE, val |-> <<>>]

MAX_DIFF_SIZE == 8000

\* anthropic.rs lines 186-191: the diff embedded in the new-PR prompt
prompt_diff(text) ==
  IF len(text) > 8000
  THEN LET head == slice_to(text, 8000)
       IN IF head = None THEN Panicked ELSE Returned(head[1])
  ELSE Returned(text)

\* What `git diff <base>...HEAD` may print: short texts and texts around
\* the cutoff of the prompt.
BranchDiffs ==
  { << Run("a", 3) >>,
    << Run("a", 8000) >>,
    << Run("a", 8001) >>,
    << Run("a", 7999), Run("U+00E9", 1) >>,
    << Run("a", 7998), Run("U+00E9", 2) >>,
    << Run("U+20AC", 2667) >> }


\* --------------------------------------------------- run(), main.rs
\* line 47: Config::from_env()?
LoadConfig ==
  /\ pc = "config"
  /\ \E ok \in BOOLEAN :
       /\ last_call' = Call("env ANTHROPIC_API_KEY",
                            IF ok THEN "set" ELSE "fail")
       /\ IF ok THEN Goto("current_branch")
          ELSE Return(Failure(Err("Env", "ANTHROPIC_API_KEY", NoRaw)))
  /\ UNCHANGED << utilVars, commitVars >>
  /\ UNCHANGED << cliVars, branchVars, existing_pr, pushVars, gatherVars,
                  genVars, operatorVars, createVars >>

\* lines 50-55
GetCurrentBranch ==
  /\ pc = "current_branch"
  /\ \E o \in CurrentBranchOutcomes :
       LET r == get_current_branch(o)
       IN /\ last_call' = Call("git branch --show-current", o)
          /\ IF ~r.ok
             THEN Return(Failure(r.err)) /\ UNCHANGED current_branch
             ELSE /\ current_branch' = r.val
                  /\ IF r.val = ""
                     THEN Return(Failure(Err("User", "Not on a branch",
                                             NoRaw)))
                     ELSE Goto("default_branch")
  /\ UNCHANGED << utilVars, commitVars >>
  /\ UNCHANGED << cliVars, base_branch, existing_pr, pushVars, gatherVars,
                  genVars, operatorVars, createVars >>

\* lines 57-66
GetDefaultBranch ==
  /\ pc = "default_branch"
  /\ \E o \in RemoteShowOutcomes :
       LET r == get_default_branch(o)
       IN /\ last_call' = Call("git remote show origin", o)
          /\ IF ~r.ok
             THEN Return(Failure(r.err)) /\ UNCHANGED base_branch
             ELSE /\ base_branch' = r.val
                  /\ IF on_base_branch(current_branch, r.val)
                     THEN Return(Failure(Err("User", "On the base branch",
                                             NoRaw)))
                     ELSE Goto("existing_pr")
  /\ UNCHANGED << utilVars, commitVars >>
  /\ UNCHANGED << cliVars, current_branch, existing_pr, pushVars, gatherVars,
                  genVars, operatorVars, createVars >>

\* lines 68-75: the existing-PR check, then the test of cli.dry_run
CheckExistingPr ==
  /\ pc = "existing_pr"
  /\ \E o \in PrViewOutcomes :
       LET r == get_existing_pr(o)
       IN /\ last_call' = Call("gh pr view", o)
          /\ IF ~r.ok
             THEN Return(Failure(r.err)) /\ UNCHANGED existing_pr
             ELSE /\ existing_pr' = r.val
                  /\ LET n == after_existing_pr(r.val, dry_run)
                     IN IF n = "return"
                        THEN Return(Success("existing-pr",
                                            unwrap_or(r.val, "")))
                        ELSE Goto(n)
  /\ UNCHANGED << utilVars, commitVars >>
  /\ UNCHANGED << cliVars, branchVars, pushVars, gatherVars, genVars,
                  operatorVars, createVars >>

\* line 76
RemoteBranchExists ==
  /\ pc = "remote_exists"
  /\ \E b \in {"fail", current_branch}, o \in LsRemoteOutcomes :
       LET r == remote_branch_exists(b, o)
       IN /\ last_call' = IF b = "fail"
                          THEN Call("git branch --show-current", b)
                          ELSE Call("git ls-remote", o)
          /\ IF ~r.ok
             THEN Return(Failure(r.err)) /\ UNCHANGED remote_exists
             ELSE remote_exists' = Some(r.val) /\ Goto("unpushed")
  /\ UNCHANGED << utilVars, commitVars >>
  /\ UNCHANGED << cliVars, branchVars, existing_pr, has_unpushed, pushCalls,
                  pushed, gatherVars, genVars, operatorVars, createVars >>

\* line 77
CheckUnpushedCommits ==
  /\ pc = "unpushed"
  /\ \E o \in StatusOutcomes :
       LET r == check_unpushed_commits(o)
       IN /\ last_call' = Call("git status -sb", o)
          /\ IF ~r.ok
             THEN Return(Failure(r.err)) /\ UNCHANGED has_unpushed
             ELSE has_unpushed' = Some(r.val) /\ Goto("push_decision")
  /\ UNCHANGED << utilVars, commitVars >>
  /\ UNCHANGED << cliVars, branchVars, existing_pr, remote_exists, pushCalls,
                  pushed, gatherVars, genVars, operatorVars, createVars >>

\* lines 79-82: push_branch is called, or the block is left (its two
\* locals go out of scope).
PushDecision ==
  /\ pc = "push_decision"
  /\ IF push_needed(remote_exists[1], has_unpushed[1])
     THEN /\ Goto("push")
          /\ pushCalls' = pushCalls + 1
          /\ UNCHANGED << remote_exists, has_unpushed >>
     ELSE /\ Goto("gather")
          /\ remote_exists' = None
          /\ has_unpushed' = None
          /\ UNCHANGED pushCalls
  /\ last_call' = NoCall
  /\ UNCHANGED << utilVars, commitVars >>
  /\ UNCHANGED << cliVars, branchVars, existing_pr, pushed, gatherVars,
                  genVars, operatorVars, createVars >>

\* line 80: push_branch returns
PushBranch ==
  /\ pc = "push"
  /\ \E b \in {"fail", current_branch}, o \in PushOutcomes :
       LET r == push_branch(b, o)
       IN /\ last_call' = IF b = "fail"
                          THEN Call("git branch --show-current", b)
                          ELSE Call("git push -u origin", o)
          /\ IF ~r.ok
             THEN /\ Return(Failure(r.err))
                  /\ UNCHANGED << pushed, remote_exists, has_unpushed >>
             ELSE /\ pushed' = TRUE
                  /\ remote_exists' = None
                  /\ has_unpushed' = None
                  /\ Goto("gather")
  /\ UNCHANGED << utilVars, commitVars >>
  /\ UNCHANGED << cliVars, branchVars, existing_pr, pushCalls, gatherVars,
                  genVars, operatorVars, createVars >>

\* lines 86-91: tokio::join! starts the four futures; each runs its first
\* command (the template future probes its first path).
StartGather ==
  /\ pc = "gather"
  /\ pc' = "join"
  /\ gpc' = [g \in Gatherers |-> "primary"]
  /\ gcmds' = [g \in Gatherers |-> << PrimaryCmd(g, base_branch) >>]
  /\ tpc' = 1
  /\ last_call' = NoCall
  /\ UNCHANGED << utilVars, commitVars >>
  /\ UNCHANGED << cliVars, result, branchVars, existing_pr, pushVars,
                  gprimary, gout, gfiles, template, commits, diff,
                  changed_files, genVars, operatorVars, createVars >>

\* git.rs get_commits / get_diff / get_changed_files: the first command
\* returns; on failure the fallback command is run.
GatherPrimary(g) ==
  /\ pc = "join"
  /\ gpc[g] = "primary"
  /\ \/ /\ gprimary' = [gprimary EXCEPT ![g] = "ok"]
        /\ gpc' = [gpc EXCEPT ![g] = "ok"]
        /\ gout' = [gout EXCEPT ![g] = "base"]
        /\ gcmds' = gcmds
        /\ IF g = "files"
           THEN \E l \in FileLists : gfiles' = filter_lock_files(l)
           ELSE gfiles' = gfiles
     \/ /\ gprimary' = [gprimary EXCEPT ![g] = "fail"]
        /\ gpc' = [gpc EXCEPT ![g] = "fallback"]
        /\ gcmds' = [gcmds EXCEPT ![g] = Append(@, FallbackCmd(g))]
        /\ UNCHANGED << gout, gfiles >>
  /\ last_call' = NoCall
  /\ UNCHANGED << utilVars, commitVars >>
  /\ UNCHANGED << cliVars, pc, result, branchVars, existing_pr, pushVars,
                  tpc, template, commits, diff, changed_files, genVars,
                  operatorVars, createVars >>

\* The fallback command returns; its failure is the call's failure.
GatherFallback(g) ==
  /\ pc = "join"
  /\ gpc[g] = "fallback"
  /\ \/ /\ gpc' = [gpc EXCEPT ![g] = "ok"]
        /\ gout' = [gout EXCEPT ![g] = "window"]
        /\ IF g = "files"
           THEN \E l \in FileLists : gfiles' = filter_lock_files(l)
           ELSE gfiles' = gfiles
     \/ /\ gpc' = [gpc EXCEPT ![g] = "err"]
        /\ UNCHANGED << gout, gfiles >>
  /\ last_call' = NoCall
  /\ UNCHANGED << utilVars, commitVars >>
  /\ UNCHANGED << cliVars, pc, result, branchVars, existing_pr, pushVars,
                  gcmds, gprimary, tpc, template, commits, diff,
                  changed_files, genVars, operatorVars, createVars >>

\* main.rs get_pr_template: one read_to_string returns.
TemplateProbe ==
  /\ pc = "join"
  /\ tpc \in 1..Len(template_paths)
  /\ \/ /\ template' = Some(template_paths[tpc])
        /\ tpc' = Len(template_paths) + 1
     \/ /\ tpc' = tpc + 1
        /\ template' = template
  /\ last_call' = NoCall
  /\ UNCHANGED << utilVars, commitVars >>
  /\ UNCHANGED << cliVars, pc, result, branchVars, existing_pr, pushVars,
                  gpc, gcmds, gprimary, gout, gfiles, commits, diff,
                  changed_files, genVars, operatorVars, createVars >>

GatherDone_mut_first ==
  \E g \in Gatherers : gpc[g] \in {"ok", "err"}

GatherDone ==
  /\ \A g \in Gatherers : gpc[g] \in {"ok", "err"}
  /\ tpc = Len(template_paths) + 1

GatherError(g) == Err("Git", CmdLine(gcmds[g][Len(gcmds[g])]), NoRaw)

\* The futures of the join are dropped.
DropFutures ==
  /\ gpc' = [g \in Gatherers |-> "idle"]
  /\ gcmds' = [g \in Gatherers |-> <<>>]
  /\ gprimary' = [g \in Gatherers |-> "none"]
  /\ gout' = [g \in Gatherers |-> "none"]
  /\ gfiles' = <<>>
  /\ tpc' = 0

\* lines 93-124: the join returns, the four `?`, the empty check, and the
\* first generation call is sent.  The call builds the new-PR prompt from
\* the text of the diff (anthropic.rs 186-191) and panics where the slice
\* does; the later calls slice the same text, so they succeed as this one.
JoinReturns ==
  /\ pc = "join"
  /\ GatherDone
  /\ IF gpc["commits"] = "err"
     THEN /\ Return(Failure(GatherError("commits")))
          /\ UNCHANGED << futureVars, commits, diff, changed_files, genVars >>
     ELSE IF gpc["diff"] = "err"
     THEN /\ Return(Failure(GatherError("diff")))
          /\ UNCHANGED << futureVars, commits, diff, changed_files, genVars >>
     ELSE IF gpc["files"] = "err"
     THEN /\ Return(Failure(GatherError("files")))
          /\ UNCHANGED << futureVars, commits, diff, changed_files, genVars >>
     ELSE /\ commits' = gout["commits"]
          /\ diff' = gout["diff"]
          /\ changed_files' = gfiles
          /\ DropFutures
          /\ IF no_changes(gfiles)
             THEN /\ Return(Failure(Err("User", "No changes found", NoRaw)))
                  /\ UNCHANGED genVars
             ELSE \E text \in BranchDiffs :
                    /\ genCalls' = genCalls + 1
                    /\ IF prompt_diff(text).panicked
                       THEN /\ Return(Aborted)
                            /\ UNCHANGED << pr_content, prompt,
                                            response_text >>
                       ELSE /\ Goto("gen_first")
                            /\ prompt' =
                                 Some(build_prompt(gout["commits"],
                                                   gout["diff"], gfiles,
                                                   template, None, None))
                            /\ UNCHANGED << pr_content, response_text >>
  /\ last_call' = NoCall
  /\ UNCHANGED << utilVars, commitVars >>
  /\ UNCHANGED << cliVars, branchVars, existing_pr, pushVars, template,
                  operatorVars, createVars >>

InvokeCreate_mut_swapped(c) ==
  /\ Goto("create")
  /\ createCalls' = createCalls + 1
  /\ createArgs' = [title |-> c.title, body |-> c.body,
                    base |-> current_branch, head |-> base_branch]

\* lines 214-220: create_pr is called with the current content
InvokeCreate(c) ==
  /\ Goto("create")
  /\ createCalls' = createCalls + 1
  /\ createArgs' = [title |-> c.title, body |-> c.body,
                    base |-> base_branch, head |-> current_branch]

\* lines 127-171 from the test of the `while`: ask the clarification
\* question, or leave the loop, show the preview and go on to the dry-run
\* exit, the decision prompt or the creation.
AfterContent(c) ==
  IF clarification_pending(c)
  THEN Goto("clar_prompt") /\ UNCHANGED createVars
  ELSE LET n == after_preview(dry_run, yes)
       IN CASE n = "exit" ->
                 Return(Success("dry-run", "")) /\ UNCHANGED createVars
            [] n = "decide" ->
                 Goto("decide") /\ UNCHANGED createVars
            [] n = "create" -> InvokeCreate(c)

GenWaits == {"gen_first", "gen_clarify", "gen_revise"}

DecodeOf(l) ==
  CASE l = "gen_first" -> "decode_first"
    [] l = "gen_clarify" -> "decode_clarify"
    [] l = "gen_revise" -> "decode_revise"

\* anthropic.rs line 230: send_message returns to generate_pr_content.
MessageReturns ==
  /\ pc \in GenWaits
  /\ \E o \in RemoteOutcomes :
       LET r == send_message(o)
       IN /\ prompt' = None
          /\ last_call' = Call("POST /v1/messages", o.transport)
          /\ IF ~r.ok
             THEN Return(Failure(r.err)) /\ UNCHANGED response_text
             ELSE response_text' = Some(r.val) /\ Goto(DecodeOf(pc))
  /\ UNCHANGED << utilVars, commitVars >>
  /\ UNCHANGED << cliVars, branchVars, existing_pr, pushVars, gatherVars,
                  pr_content, genCalls, operatorVars, createVars >>

\* anthropic.rs lines 233-238 and main.rs lines 115-154: the text of the
\* first round or of a clarification round is decoded.
DecodeGenerated ==
  /\ pc \in {"decode_first", "decode_clarify"}
  /\ LET d == decode(response_text[1])
     IN IF ~IsSome(d)
        THEN /\ Return(Failure(Err("Api", "parse", response_text)))
             /\ UNCHANGED << pr_content, response_text, createVars >>
        ELSE /\ pr_content' = d[1]
             /\ response_text' = None
             /\ AfterContent(d[1])
  /\ last_call' = NoCall
  /\ UNCHANGED << utilVars, commitVars >>
  /\ UNCHANGED << cliVars, branchVars, existing_pr, pushVars, gatherVars,
                  prompt, genCalls, operatorVars >>

\* anthropic.rs lines 233-238 and main.rs lines 190-208: the text of a
\* revision round is decoded; the loop goes back to the decision prompt.
DecodeRevised ==
  /\ pc = "decode_revise"
  /\ LET d == decode(response_text[1])
     IN IF ~IsSome(d)
        THEN /\ Return(Failure(Err("Api", "parse", response_text)))
             /\ UNCHANGED << pr_content, response_text >>
        ELSE /\ pr_content' = d[1]
             /\ response_text' = None
             /\ Goto("decide")
  /\ last_call' = NoCall
  /\ UNCHANGED << utilVars, commitVars >>
  /\ UNCHANGED << cliVars, branchVars, existing_pr, pushVars, gatherVars,
                  prompt, genCalls, operatorVars, createVars >>

\* lines 130-134: the clarification prompt returns.
ReadAnswer ==
  /\ pc = "clar_prompt"
  /\ \E i \in OperatorReads :
       /\ last_call' = Call("read_line", IF i.ok THEN "line" ELSE "fail")
       /\ IF ~i.ok
          THEN Return(Failure(ReadError)) /\ UNCHANGED answer
          ELSE /\ i.text # <<>> => genCalls < MaxGenCalls
               /\ answer' = Some(i.text)
               /\ Goto("clar_answer")
  /\ UNCHANGED << utilVars, commitVars >>
  /\ UNCHANGED << cliVars, branchVars, existing_pr, pushVars, gatherVars,
                  genVars, response, createVars >>

\* lines 136-150: the answer is used.
ClarificationAnswer ==
  /\ pc = "clar_answer"
  /\ IF answer[1] = <<>>
     THEN /\ pr_content' = proceed_without_context(pr_content)
          /\ AfterContent(pr_content')
          /\ UNCHANGED << answer, prompt, response_text, genCalls >>
     ELSE /\ Goto("gen_clarify")
          /\ answer' = None
          /\ prompt' = Some(build_prompt(commits, diff, changed_files,
                                         template, answer, None))
          /\ genCalls' = genCalls + 1
          /\ UNCHANGED << pr_content, response_text, createVars >>
  /\ last_call' = NoCall
  /\ UNCHANGED << utilVars, commitVars >>
  /\ UNCHANGED << cliVars, branchVars, existing_pr, pushVars, gatherVars,
                  response >>

\* lines 173-177: the decision prompt returns.
ReadDecision ==
  /\ pc = "decide"
  /\ \E i \in OperatorReads :
       /\ last_call' = Call("read_line", IF i.ok THEN "line" ELSE "fail")
       /\ IF ~i.ok
          THEN Return(Failure(ReadError)) /\ UNCHANGED response
          ELSE /\ classify(i.text) = "revise" => genCalls < MaxGenCalls
               /\ response' = Some(i.text)
               /\ Goto("classify")
  /\ UNCHANGED << utilVars, commitVars >>
  /\ UNCHANGED << cliVars, branchVars, existing_pr, pushVars, gatherVars,
                  genVars, answer, createVars >>

\* lines 179-199: the reply is classified and acted upon.
DecisionReply ==
  /\ pc = "classify"
  /\ LET k == classify(response[1])
     IN CASE k = "accept" ->
               InvokeCreate(pr_content) /\ UNCHANGED << genVars, response >>
          [] k = "cancel" ->
               /\ Return(Success("cancelled", ""))
               /\ UNCHANGED << genVars, response, createVars >>
          [] k = "revise" ->
               /\ Goto("gen_revise")
               /\ response' = None
               /\ prompt' = Some(build_prompt(commits, diff, changed_files,
                                              template, response,
                                              Some(pr_content)))
               /\ genCalls' = genCalls + 1
               /\ UNCHANGED << pr_content, response_text, createVars >>
  /\ last_call' = NoCall
  /\ UNCHANGED << utilVars, commitVars >>
  /\ UNCHANGED << cliVars, branchVars, existing_pr, pushVars, gatherVars,
                  answer >>

\* lines 214-223: create_pr returns.
CreateReturns ==
  /\ pc = "create"
  /\ \E o \in CreateOutcomes :
       LET r == create_pr(createArgs.title, createArgs.body, createArgs.base,
                          createArgs.head, o)
       IN /\ last_call' = Call("gh pr create", o)
          /\ IF r.ok THEN Return(Success("created", r.val))
             ELSE Return(Failure(r.err))
  /\ UNCHANGED << utilVars, commitVars >>
  /\ UNCHANGED << cliVars, branchVars, existing_pr, pushVars, gatherVars,
                  genVars, operatorVars, createVars >>

Next ==
  \/ LoadConfig
  \/ GetCurrentBranch
  \/ GetDefaultBranch
  \/ CheckExistingPr
  \/ RemoteBranchExists
  \/ CheckUnpushedCommits
  \/ PushDecision
  \/ PushBranch
  \/ StartGather
  \/ \E g \in Gatherers : GatherPrimary(g)
  \/ \E g \in Gatherers : GatherFallback(g)
  \/ TemplateProbe
  \/ JoinReturns
  \/ MessageReturns
  \/ DecodeGenerated
  \/ DecodeRevised
  \/ ReadAnswer
  \/ ClarificationAnswer
  \/ ReadDecision
  \/ DecisionReply
  \/ CreateReturns

Spec == Init /\ [][Next]_vars

\* ========================================================== utils.rs
\* ------------------------------------------------------------ bounds
\* Runs of one diff text, repetitions of one run, size limits and paths of
\* one file list that the applications below are drawn from.
MaxRuns == 2
MaxRun == 2
MaxSize == 4
MaxFiles == 3


\* utils.rs lines 51-62; the value is the pair (text, was_truncated).
truncate_diff(text, max_size) ==
  IF len(text) <= max_size
  THEN Returned(<< text, FALSE >>)
  ELSE LET head == slice_to(text, max_size)
       IN IF head = None THEN Panicked
          ELSE Returned(<< head[1] \o Chars(MarkerLead)
                             \o Chars(to_string(len(text) - max_size))
                             \o Chars(MarkerTrail),
                           TRUE >>)

\* ----------------------------------------- applications of the functions
\* The function applied, its arguments, and whether this is its first or
\* second application.
FnCall(fn, files, text, max_size) ==
  [fn |-> fn, files |-> files, diff |-> text, max_size |-> max_size,
   round |-> 1]

DiffChars == {"a", "U+00E9", "U+20AC"}
Runs == { Run(c, n) : c \in DiffChars, n \in 1..MaxRun }

RECURSIVE SeqsUpTo(_, _)
SeqsUpTo(S, n) ==
  IF n = 0 THEN { <<>> }
  ELSE LET shorter == SeqsUpTo(S, n - 1)
       IN shorter \cup { Append(s, x) : s \in shorter, x \in S }

DiffTexts == SeqsUpTo(Runs, MaxRuns)

Paths ==
  { <<"yarn.lock">>, <<"frontend", "yarn.lock">>, <<"src", "main.rs">>,
    <<"Cargo.lock", "notes.md">>, <<"yarn.lock.bak">> }

PathLists == SeqsUpTo(Paths, MaxFiles)

UtilCalls ==
  { FnCall("truncate_diff", <<>>, d, m) : d \in DiffTexts, m \in 0..MaxSize }
  \cup { FnCall("filter_lock_files", l, <<>>, 0) : l \in PathLists }
  \cup { FnCall("prompt_diff", <<>>, d, 8000) : d \in BranchDiffs }

ApplyTruncate ==
  /\ pc = "utils"
  /\ call.fn = "truncate_diff"
  /\ ret = None
  /\ ret' = Some(truncate_diff(call.diff, call.max_size))
  /\ UNCHANGED << call, pc, result, last_call, cliVars, prVars, commitVars >>

ApplyPromptDiff ==
  /\ pc = "utils"
  /\ call.fn = "prompt_diff"
  /\ ret = None
  /\ ret' = Some(prompt_diff(call.diff))
  /\ UNCHANGED << call, pc, result, last_call, cliVars, prVars, commitVars >>

ApplyFilter ==
  /\ pc = "utils"
  /\ call.fn = "filter_lock_files"
  /\ ret = None
  /\ ret' = Some(filter_lock_files(call.files))
  /\ UNCHANGED << call, pc, result, last_call, cliVars, prVars, commitVars >>

\* The function is applied to the list it returned.
ApplyFilterAgain ==
  /\ pc = "utils"
  /\ call.fn = "filter_lock_files"
  /\ ret # None
  /\ call.round = 1
  /\ call' = [call EXCEPT !.files = ret[1], !.round = 2]
  /\ ret' = Some(filter_lock_files(ret[1]))
  /\ UNCHANGED << pc, result, last_call, cliVars, prVars, commitVars >>

UtilInit ==
  /\ dry_run = FALSE
  /\ yes = FALSE
  /\ pc = "utils"
  /\ result = Running
  /\ last_call = NoCall
  /\ PrIdle
  /\ CommitIdle
  /\ call \in UtilCalls
  /\ ret = None

UtilNext ==
  \/ ApplyTruncate
  \/ ApplyPromptDiff
  \/ ApplyFilter
  \/ ApplyFilterAgain

SpecUtils == UtilInit /\ [][UtilNext]_vars

\* ============================== autocommit (crates/autocommit/src/main.rs)
\* What `git diff --staged --name-only` may print, line by line; "" is a
\* blank line.
StagedOutputs ==
  { <<>>,
    << <<"">> >>,
    << <<"yarn.lock">>, <<"backend", "Cargo.lock">> >>,
    << <<"src", "main.rs">> >>,
    << <<"src", "main.rs">>, <<"yarn.lock">>, <<"README.md">> >> }

\* What `git diff --staged -- . :!<lock files>` may print.
StagedDiffs ==
  { <<>>,
    << Run(" ", 2) >>,
    << Run("a", 3) >>,
    << Run("a", MAX_DIFF_SIZE) >>,
    << Run("a", MAX_DIFF_SIZE + 1) >>,
    << Run("a", MAX_DIFF_SIZE - 1), Run("U+00E9", 1) >>,
    << Run("a", MAX_DIFF_SIZE - 2), Run("U+00E9", 2) >> }

CommitOutcomes == {"fail", "committed"}

\* git.rs lines 110-114: the non-empty lines of the output
non_empty_lines(output) == SelectSeq(output, LAMBDA line : line # <<"">>)

\* git.rs lines 108-116, after run_git has returned
get_staged_files(output) == filter_lock_files(non_empty_lines(output))

\* main.rs line 28: staged_files.is_empty()
no_staged_files_mut_never(files) == FALSE

no_staged_files(files) == files = <<>>

\* main.rs line 38: raw_diff.trim().is_empty()
trim_is_empty(text) == \A i \in 1..Len(text) : IsWhite(text[i].ch)

git_commit(message, outcome) == run_cmd("git commit -m", outcome)

CommitInit ==
  /\ dry_run \in BOOLEAN
  /\ yes = FALSE
  /\ pc = "commit_config"
  /\ result = Running
  /\ last_call = NoCall
  /\ PrIdle
  /\ CommitIdle
  /\ UtilIdle

\* line 24: Config::from_env()?
CommitLoadConfig ==
  /\ pc = "commit_config"
  /\ \E ok \in BOOLEAN :
       /\ last_call' = Call("env ANTHROPIC_API_KEY",
                            IF ok THEN "set" ELSE "fail")
       /\ IF ok THEN Goto("staged_output")
          ELSE Return(Failure(Err("Env", "ANTHROPIC_API_KEY", NoRaw)))
  /\ UNCHANGED << cliVars, prVars, commitVars, utilVars >>

\* git.rs line 109: run_git returns inside get_staged_files.
StagedOutputReturns ==
  /\ pc = "staged_output"
  /\ \/ /\ last_call' = Call("git diff --staged --name-only", "fail")
        /\ Return(Failure(Err("Git", "git diff --staged --name-only",
                              NoRaw)))
        /\ UNCHANGED staged_output
     \/ \E o \in StagedOutputs :
          /\ last_call' = Call("git diff --staged --name-only", "lines")
          /\ staged_output' = Some(o)
          /\ Goto("staged_files")
  /\ UNCHANGED << cliVars, prVars, staged_files, raw_diff, commit_diff,
                  commit_message, messageCalls, commitCalls, utilVars >>

\* git.rs lines 110-115 and main.rs lines 27-34: the list is built and
\* filtered, and run() tests it.
GetStagedFiles ==
  /\ pc = "staged_files"
  /\ last_call' = NoCall
  /\ staged_files' = get_staged_files(staged_output[1])
  /\ IF no_staged_files(staged_files')
     THEN /\ Return(Failure(Err("User", "No staged changes found", NoRaw)))
          /\ UNCHANGED staged_output
     ELSE /\ Goto("staged_diff")
          /\ staged_output' = None
  /\ UNCHANGED << cliVars, prVars, raw_diff, commit_diff, commit_message,
                  messageCalls, commitCalls, utilVars >>

\* lines 37-56: get_staged_diff returns, the blank test, truncate_diff, and
\* the request of generate_commit_message is sent.
GetStagedDiff ==
  /\ pc = "staged_diff"
  /\ \/ /\ last_call' = Call("git diff --staged", "fail")
        /\ Return(Failure(Err("Git", "git diff --staged", NoRaw)))
        /\ UNCHANGED << raw_diff, commit_diff, messageCalls >>
     \/ \E d \in StagedDiffs :
          /\ last_call' = Call("git diff --staged", "text")
          /\ raw_diff' = Some(d)
          /\ IF trim_is_empty(d)
             THEN /\ Return(Failure(Err("User", "No diff content found",
                                        NoRaw)))
                  /\ UNCHANGED << commit_diff, messageCalls >>
             ELSE LET t == truncate_diff(d, MAX_DIFF_SIZE)
                  IN IF t.panicked
                     THEN /\ Return(Aborted)
                          /\ UNCHANGED << commit_diff, messageCalls >>
                     ELSE /\ commit_diff' = Some(t.val)
                          /\ messageCalls' = messageCalls + 1
                          /\ Goto("commit_message")
  /\ UNCHANGED << cliVars, prVars, staged_output, staged_files,
                  commit_message, commitCalls, utilVars >>

\* lines 56-67: generate_commit_message returns; the dry-run exit, or
\* git_commit is called.
CommitMessageReturns ==
  /\ pc = "commit_message"
  /\ \E o \in RemoteOutcomes :
       LET r == send_message(o)
       IN /\ last_call' = Call("POST /v1/messages", o.transport)
          /\ IF ~r.ok
             THEN /\ Return(Failure(r.err))
                  /\ UNCHANGED << commit_message, commitCalls >>
             ELSE /\ commit_message' = Some(r.val)
                  /\ IF dry_run
                     THEN /\ Return(Success("dry-run", ""))
                          /\ UNCHANGED commitCalls
                     ELSE /\ Goto("git_commit")
                          /\ commitCalls' = commitCalls + 1
  /\ UNCHANGED << cliVars, prVars, staged_output, staged_files, raw_diff,
                  commit_diff, messageCalls, utilVars >>

\* lines 67-70: git_commit returns.
GitCommitReturns ==
  /\ pc = "git_commit"
  /\ \E o \in CommitOutcomes :
       LET r == git_commit(commit_message[1], o)
       IN /\ last_call' = Call("git commit -m", o)
          /\ IF r.ok THEN Return(Success("committed", r.val))
             ELSE Return(Failure(r.err))
  /\ UNCHANGED << cliVars, prVars, commitVars, utilVars >>

CommitNext ==
  \/ CommitLoadConfig
  \/ StagedOutputReturns
  \/ GetStagedFiles
  \/ GetStagedDiff
  \/ CommitMessageReturns
  \/ GitCommitReturns

SpecCommit == CommitInit /\ [][CommitNext]_vars

\* ===================================== the two loops without a round cap
\* run() has no limit on the rounds of either loop (main.rs 127, 172).
\* Here the operator may go on for ever; generation calls beyond
\* MaxGenCalls are made but no longer counted.
count_call(n) == IF n < MaxGenCalls THEN n + 1 ELSE n

\* lines 130-134: the clarification prompt returns.
LiveReadAnswer ==
  /\ pc = "clar_prompt"
  /\ \E i \in OperatorReads :
       /\ last_call' = Call("read_line", IF i.ok THEN "line" ELSE "fail")
       /\ IF ~i.ok
          THEN Return(Failure(ReadError)) /\ UNCHANGED answer
          ELSE /\ answer' = Some(i.text)
               /\ Goto("clar_answer")
  /\ UNCHANGED << utilVars, commitVars >>
  /\ UNCHANGED << cliVars, branchVars, existing_pr, pushVars, gatherVars,
                  genVars, response, createVars >>

\* lines 136-150: the answer is used.
LiveClarificationAnswer ==
  /\ pc = "clar_answer"
  /\ IF answer[1] = <<>>
     THEN /\ pr_content' = proceed_without_context(pr_content)
          /\ AfterContent(pr_content')
          /\ UNCHANGED << answer, prompt, response_text, genCalls >>
     ELSE /\ Goto("gen_clarify")
          /\ answer' = None
          /\ prompt' = Some(build_prompt(commits, diff, changed_files,
                                         template, answer, None))
          /\ genCalls' = count_call(genCalls)
          /\ UNCHANGED << pr_content, response_text, createVars >>
  /\ last_call' = NoCall
  /\ UNCHANGED << utilVars, commitVars >>
  /\ UNCHANGED << cliVars, branchVars, existing_pr, pushVars, gatherVars,
                  response >>

\* lines 173-177: the decision prompt returns.
LiveReadDecision ==
  /\ pc = "decide"
  /\ \E i \in OperatorReads :
       /\ last_call' = Call("read_line", IF i.ok THEN "line" ELSE "fail")
       /\ IF ~i.ok
          THEN Return(Failure(ReadError)) /\ UNCHANGED response
          ELSE /\ response' = Some(i.text)
               /\ Goto("classify")
  /\ UNCHANGED << utilVars, commitVars >>
  /\ UNCHANGED << cliVars, branchVars, existing_pr, pushVars, gatherVars,
                  genVars, answer, createVars >>

\* lines 179-199: the reply is classified and acted upon.
LiveDecisionReply ==
  /\ pc = "classify"
  /\ LET k == classify(response[1])
     IN CASE k = "accept" ->
               InvokeCreate(pr_content) /\ UNCHANGED << genVars, response >>
          [] k = "cancel" ->
               /\ Return(Success("cancelled", ""))
               /\ UNCHANGED << genVars, response, createVars >>
          [] k = "revise" ->
               /\ Goto("gen_revise")
               /\ response' = None
               /\ prompt' = Some(build_prompt(commits, diff, changed_files,
                                              template, response,
                                              Some(pr_content)))
               /\ genCalls' = count_call(genCalls)
               /\ UNCHANGED << pr_content, response_text, createVars >>
  /\ last_call' = NoCall
  /\ UNCHANGED << utilVars, commitVars >>
  /\ UNCHANGED << cliVars, branchVars, existing_pr, pushVars, gatherVars,
                  answer >>

LiveNext ==
  \/ LoadConfig
  \/ GetCurrentBranch
  \/ GetDefaultBranch
  \/ CheckExistingPr
  \/ RemoteBranchExists
  \/ CheckUnpushedCommits
  \/ PushDecision
  \/ PushBranch
  \/ StartGather
  \/ \E g \in Gatherers : GatherPrimary(g)
  \/ \E g \in Gatherers : GatherFallback(g)
  \/ TemplateProbe
  \/ JoinReturns
  \/ MessageReturns
  \/ DecodeGenerated
  \/ DecodeRevised
  \/ LiveReadAnswer
  \/ LiveClarificationAnswer
  \/ LiveReadDecision
  \/ LiveDecisionReply
  \/ CreateReturns

\* The operator gives an empty answer at the clarification prompt.
EmptyAnswer == LiveReadAnswer /\ answer' = Some(<<>>)

\* The operator answers the decision prompt with something other than a
\* comment.
DecisiveReply ==
  /\ LiveReadDecision
  /\ response' # None
  /\ classify(response'[1]) # "revise"

\* Every call returns (each step that can be taken is taken), and the
\* operator, asked again and again, at some time gives an empty answer and
\* at some time a decisive reply.
LiveSpec ==
  /\ Init
  /\ [][LiveNext]_vars
  /\ WF_vars(LiveNext)
  /\ SF_vars(EmptyAnswer)
  /\ SF_vars(DecisiveReply)

\* The same without the operator's cooperation.
StubbornSpec == Init /\ [][LiveNext]_vars /\ WF_vars(LiveNext)

\* ================================================================ claims
\* Notions of the claims, stated apart from the operators of the model.
SaysYes(r) == to_lowercase(trim(r)) \in { <<"y">>, <<"y", "e", "s">> }
SaysNo(r) == to_lowercase(trim(r)) \in { <<"n">>, <<"n", "o">> }

WellFormed(text) ==
  text.fmt = "json" /\ text.title # None /\ text.body # None

ContentOf(text) ==
  PRContent(text.title[1], text.body[1], text.needsClarification,
            text.clarificationQuestion)

Decodes == {"decode_first", "decode_clarify", "decode_revise"}

\* The reply n/no has been read and acted upon.
Cancelled == response # None /\ SaysNo(response[1]) /\ pc # "classify"

\* C1: whenever get_existing_pr returned a URL the run has ended
\* successfully reporting that URL, and no push, no generation call and no
\* PR creation has been made, whatever the flags.
C1_ExistingPrHalts ==
  existing_pr # None =>
    /\ pc = "done"
    /\ result = Success("existing-pr", existing_pr[1])
    /\ pushCalls = 0 /\ ~pushed
    /\ remote_exists = None /\ has_unpushed = None
    /\ genCalls = 0 /\ prompt = None
    /\ createCalls = 0

C1_Witness ==
  /\ existing_pr # None
  /\ pc = "done"
  /\ ~dry_run /\ ~yes

\* C2 as stated: a cancelled run ends successfully and has performed no
\* branch push and no PR creation.
C2_CancelledNoPushNoCreate ==
  Cancelled =>
    /\ pc = "done" /\ result.status = "ok"
    /\ pushCalls = 0
    /\ createCalls = 0

\* C2, amended: a cancelled run ends successfully without any PR creation,
\* and nothing is pushed once the first generation call has been made; the
\* only push a cancelled run can contain is the one made before
\* generation.
C2_CancelledNoCreate ==
  /\ [](Cancelled =>
          /\ pc = "done" /\ result = Success("cancelled", "")
          /\ createCalls = 0 /\ createArgs = NoArgs)
  /\ [][genCalls > 0 => UNCHANGED << pushCalls, pushed >>]_vars

C2_Witness ==
  /\ Cancelled
  /\ pushCalls = 1 /\ pushed

\* C3: whenever the operator replies n or no at the decision prompt, after
\* any number of clarification and revision rounds, the run ends with a
\* success result and create_pr has not been invoked.
C3_NoEndsRun ==
  [][(pc = "classify" /\ SaysNo(response[1])) =>
       /\ pc' = "done"
       /\ result'.status = "ok"
       /\ createCalls' = 0 /\ createCalls = 0]_vars

C3_Witness ==
  /\ pc = "done" /\ result.outcome = "cancelled"
  /\ response = Some(<<"n", "o">>)
  /\ genCalls = MaxGenCalls

\* C4: in dry-run mode push_branch and create_pr are never invoked, the
\* decision prompt is never issued, and a run that generated content stops
\* once the clarification loop has been left.
C4_DryRunMutatesNothing ==
  dry_run =>
    /\ pushCalls = 0 /\ ~pushed
    /\ createCalls = 0
    /\ response = None
    /\ pc \notin {"remote_exists", "unpushed", "push_decision", "push",
                  "decide", "classify", "gen_revise", "decode_revise",
                  "create"}
    /\ (pc = "done" /\ result.status = "ok" /\ genCalls > 0) =>
         /\ result.outcome = "dry-run"
         /\ ~(unwrap_or(pr_content.needs_clarification, FALSE)
              /\ pr_content.clarification_question # None)

C4_Witness ==
  /\ dry_run /\ ~yes
  /\ pc = "done" /\ result.outcome = "dry-run"
  /\ genCalls >= 2

\* C5: outside dry-run mode push_branch is called exactly when the remote
\* branch is absent or unpushed commits are present; a PR is created under
\* that condition only after the push succeeded; a failed push ends the
\* run with the push's error and no generation call or creation follows.
C5_PushWhenNeeded ==
  /\ [][pc = "push_decision" =>
          /\ (pushCalls' = pushCalls + 1 /\ pc' = "push")
               <=> (remote_exists = Some(FALSE) \/ has_unpushed = Some(TRUE))
          /\ (pushCalls' = pushCalls /\ pc' = "gather")
               <=> (remote_exists = Some(TRUE) /\ has_unpushed = Some(FALSE))]_vars
  /\ [][pushCalls' # pushCalls => (pc = "push_decision" /\ ~dry_run)]_vars
  /\ [](pushCalls <= 1)
  /\ []((pushCalls = 1 /\ (genCalls > 0 \/ createCalls > 0)) => pushed)
  /\ [](pushed => pushCalls = 1)
  /\ []((pushCalls = 1 /\ ~pushed /\ pc # "push") =>
          /\ pc = "done" /\ result.status = "err"
          /\ result.err \in { Err("Git", "git push -u origin", NoRaw),
                              Err("Git", "git branch --show-current", NoRaw) }
          /\ genCalls = 0 /\ createCalls = 0)

C5_Witness ==
  /\ ~dry_run
  /\ pushCalls = 1 /\ pushed
  /\ createCalls = 1
  /\ pc = "done" /\ result.outcome = "created"

\* C6: in the clarification loop, with needs_clarification set and a
\* question present, an empty answer clears needs_clarification, leaves
\* title, body and question as they were and makes no generation call.
C6_EmptyAnswerProceeds ==
  [][(pc = "clar_answer" /\ answer = Some(<<>>)) =>
       /\ pr_content.needs_clarification = Some(TRUE)
       /\ pr_content.clarification_question # None
       /\ pr_content'.needs_clarification = Some(FALSE)
       /\ pr_content'.title = pr_content.title
       /\ pr_content'.body = pr_content.body
       /\ pr_content'.clarification_question = pr_content.clarification_question
       /\ genCalls' = genCalls
       /\ prompt' = None
       /\ pc' \notin {"clar_prompt", "clar_answer", "gen_clarify"}]_vars

C6_Witness ==
  /\ answer = Some(<<>>)
  /\ pc = "decide"
  /\ pr_content.needs_clarification = Some(FALSE)
  /\ pr_content.clarification_question # None

\* C7 as stated: a non-empty clarification answer triggers one generation
\* call in update mode, with the current PRContent as the existing content.
C7_ClarifyInUpdateMode ==
  [][(pc = "clar_answer" /\ answer # Some(<<>>)) =>
       /\ genCalls' = genCalls + 1
       /\ prompt' # None
       /\ prompt'[1].mode = "update"
       /\ prompt'[1].cur_title = Some(pr_content.title)
       /\ prompt'[1].cur_body = Some(pr_content.body)
       /\ prompt'[1].feedback = answer]_vars

\* C7, amended: a non-empty clarification answer triggers exactly one
\* generation call in new-PR mode (no existing content; the answer is the
\* additional context next to the gathered changes); its decoded result
\* replaces PRContent and needs_clarification is tested again.
C7_ClarifyRegenerates ==
  /\ [][(pc = "clar_answer" /\ answer # Some(<<>>)) =>
          /\ genCalls' = genCalls + 1
          /\ pc' = "gen_clarify"
          /\ prompt' = Some(Prompt("new", None, None, None, answer, template,
                                   changed_files, commits, diff))
          /\ pr_content' = pr_content]_vars
  /\ [][pc = "gen_clarify" => genCalls' = genCalls]_vars
  /\ [][(pc = "decode_clarify" /\ WellFormed(response_text[1])) =>
          /\ pr_content' = ContentOf(response_text[1])
          /\ genCalls' = genCalls
          /\ pc' = "clar_prompt"
               <=> (pr_content'.needs_clarification = Some(TRUE)
                    /\ pr_content'.clarification_question # None)]_vars

C7_Witness ==
  /\ pc = "gen_clarify"
  /\ genCalls = 2
  /\ prompt # None
  /\ prompt[1].mode = "new"
  /\ prompt[1].context = Some(<<"f", "i", "x">>)

\* C8 as stated: "y", "yes" or empty is accepted, "n" or "no" cancels and
\* any other non-empty text is revision feedback.
C8_LiteralReplies ==
  [][pc = "classify" =>
       LET r == response[1]
       IN /\ r \in { <<"y">>, <<"y", "e", "s">>, <<>> } <=> pc' = "create"
          /\ r \in { <<"n">>, <<"n", "o">> }
               <=> (pc' = "done" /\ result'.outcome = "cancelled")
          /\ r \notin { <<"y">>, <<"y", "e", "s">>, <<>>, <<"n">>, <<"n", "o">> }
               <=> pc' = "gen_revise"]_vars

\* C8, amended: the reply is compared after trimming and lower-casing: y,
\* yes or a reply that is empty as typed is accepted and the PR creation
\* follows; n or no cancels; any other reply (one of white space only
\* included) makes exactly one update-mode generation call with the reply
\* as typed as feedback and the current PRContent as the existing content,
\* and its decoded result replaces PRContent before the decision prompt is
\* shown again.
C8_ReplyClasses ==
  /\ [][pc = "classify" =>
          LET r == response[1]
              accept == SaysYes(r) \/ r = <<>>
              cancel == ~accept /\ SaysNo(r)
          IN /\ accept =>
                  /\ pc' = "create"
                  /\ createCalls' = createCalls + 1
                  /\ createArgs' = [title |-> pr_content.title,
                                    body |-> pr_content.body,
                                    base |-> base_branch,
                                    head |-> current_branch]
                  /\ genCalls' = genCalls
             /\ cancel =>
                  /\ pc' = "done" /\ result' = Success("cancelled", "")
                  /\ genCalls' = genCalls /\ createCalls' = createCalls
             /\ (~accept /\ ~cancel) =>
                  /\ pc' = "gen_revise"
                  /\ genCalls' = genCalls + 1
                  /\ createCalls' = createCalls
                  /\ pr_content' = pr_content
                  /\ prompt' = Some(Prompt("update", Some(pr_content.title),
                                           Some(pr_content.body), Some(r),
                                           None, None, <<>>, "", ""))]_vars
  /\ [][pc = "gen_revise" => genCalls' = genCalls]_vars
  /\ [][(pc = "decode_revise" /\ WellFormed(response_text[1])) =>
          /\ pr_content' = ContentOf(response_text[1])
          /\ genCalls' = genCalls
          /\ pc' = "decide"]_vars

C8_Witness ==
  /\ pc = "gen_revise"
  /\ prompt # None
  /\ prompt[1].mode = "update"
  /\ prompt[1].feedback = Some(<<" ">>)
  /\ prompt[1].cur_title = Some("t2")

\* The comparisons that have run their fallback command.
FellBack(g) == Len(gcmds[g]) = 2

\* C9 as stated: each of the three comparisons first tries a three-dot
\* range against the base and falls back to the window of the last 5
\* commits.
C9_SameRangeSameWindow ==
  \A g \in Gatherers :
    gcmds[g] # <<>> =>
      /\ gcmds[g][1].range = "three-dot"
      /\ FellBack(g) => gcmds[g][2].window = 5

\* C9, amended: diff and changed_files first try a three-dot range against
\* the base and fall back to the HEAD~5 comparison; commits first tries a
\* two-dot range and falls back to the last 10 commits.  Each call falls
\* back exactly when its own first command failed, whatever the other
\* calls did, and when the fallback fails too its error is the call's
\* error, which run() surfaces.
C9_FallbackPerCall ==
  /\ \A g \in Gatherers :
       gcmds[g] # <<>> =>
         /\ gcmds[g][1].base = base_branch
         /\ gcmds[g][1].range =
              (IF g = "commits" THEN "two-dot" ELSE "three-dot")
         /\ FellBack(g) <=> gprimary[g] = "fail"
         /\ FellBack(g) =>
              /\ gcmds[g][2].range = "none"
              /\ gcmds[g][2].window = (IF g = "commits" THEN 10 ELSE 5)
              /\ gcmds[g][2].sub = gcmds[g][1].sub
              /\ gcmds[g][2].name_only = gcmds[g][1].name_only
              /\ gcmds[g][2].exclusions = gcmds[g][1].exclusions
         /\ gout[g] = "window" <=> (gpc[g] = "ok" /\ FellBack(g))
         /\ gout[g] = "base" <=> (gpc[g] = "ok" /\ ~FellBack(g))
         /\ gpc[g] = "err" => FellBack(g)
  /\ (pc = "done" /\ \E g \in Gatherers : gpc[g] = "err") =>
       /\ result.status = "err"
       /\ \E g \in Gatherers :
            /\ gpc[g] = "err"
            /\ result.err.kind = "Git"
            /\ result.err.what =
                 (IF g = "commits" THEN "git log none 10"
                  ELSE "git diff none 5")

C9_Witness ==
  /\ pc = "gen_first"
  /\ commits = "window" /\ diff = "base"
  /\ prompt # None
  /\ prompt[1].commits = "window" /\ prompt[1].diff = "base"

ServiceFailureKinds ==
  { send_message(o).err.kind :
      o \in { x \in RemoteOutcomes :
                x.transport \in {"bad-status", "empty-content"} } }

\* C11: a run that ends on a decode failure of the model output carries an
\* error kind that no service failure of the remote call (non-success
\* status, empty content) carries, so that the kind alone tells malformed
\* output from a remote failure.
C11_DecodeKindDistinct ==
  (pc = "done" /\ result.status = "err" /\ result.err.what = "parse")
    => result.err.kind \notin ServiceFailureKinds

\* Every line of the listing is blank or names a lock file, whatever its
\* directory.
OnlyLockFiles(lines) ==
  \A i \in 1..Len(lines) :
    \/ lines[i] = <<"">>
    \/ lines[i][Len(lines[i])] \in EXCLUDED_LOCK_FILES

\* C12: in autocommit, when no staged file is left once the lock files are
\* filtered out, run() ends with a user error; no generation call has been
\* made and no commit is made.  Conversely a generation call is only made
\* with a non-empty list of staged files.
C12_NoStagedFilesHalts ==
  /\ [][(pc = "staged_files" /\ OnlyLockFiles(staged_output[1]))
          => /\ pc' = "done"
             /\ result' = Failure(Err("User", "No staged changes found",
                                      NoRaw))
             /\ messageCalls' = 0
             /\ commitCalls' = 0]_vars
  /\ []((pc = "done" /\ result.err.what = "No staged changes found")
          => (messageCalls = 0 /\ commitCalls = 0 /\ commit_message = None))
  /\ [](messageCalls > 0 => staged_files # <<>>)

C12_Witness ==
  /\ pc = "done"
  /\ result = Failure(Err("User", "No staged changes found", NoRaw))
  /\ staged_output = Some(<< <<"yarn.lock">>, <<"backend", "Cargo.lock">> >>)
  /\ messageCalls = 0
  /\ commitCalls = 0

\* C13: in autopr, when the list of changed files is empty once the lock
\* files are filtered out, run() ends with a user error as soon as the join
\* has returned: no generation call, no operator prompt and no PR creation
\* takes place.  Conversely a generation call is only made with a non-empty
\* list of changed files.
C13_NoChangesHalts ==
  /\ [][(/\ pc = "join"
         /\ pc' # "join"
         /\ \A g \in Gatherers : gpc[g] = "ok"
         /\ gfiles = <<>>)
          => /\ pc' = "done"
             /\ result' = Failure(Err("User", "No changes found", NoRaw))
             /\ genCalls' = 0
             /\ createCalls' = 0]_vars
  /\ []((pc = "done" /\ result.err.what = "No changes found")
          => /\ genCalls = 0
             /\ createCalls = 0
             /\ pr_content = NoContent
             /\ answer = None
             /\ response = None)
  /\ [](genCalls > 0 => changed_files # <<>>)

C13_Witness ==
  /\ pc = "done"
  /\ result = Failure(Err("User", "No changes found", NoRaw))
  /\ changed_files = <<>>
  /\ commits # ""
  /\ genCalls = 0
  /\ createCalls = 0

\* The existing-PR lookup, the push, the gathering, a generation call or
\* the PR creation has taken place.
Acted ==
  \/ last_call.cmd \in { "gh pr view", "git ls-remote", "git status -sb",
                         "git push -u origin", "POST /v1/messages",
                         "read_line", "gh pr create" }
  \/ existing_pr # None
  \/ remote_exists # None
  \/ pushCalls > 0
  \/ \E g \in Gatherers : gcmds[g] # <<>>
  \/ commits # ""
  \/ genCalls > 0
  \/ createCalls > 0

BranchContextOk ==
  /\ current_branch # ""
  /\ base_branch # ""
  /\ current_branch # base_branch

\* C14: wherever run() has got past the two branch checks, and wherever
\* the existing-PR lookup, the push, the gathering, a generation call or
\* the creation has taken place, current_branch is non-empty and differs
\* from base_branch; a run on a detached HEAD or on the base branch has
\* ended with a user error and none of those has taken place.
C14_BranchContext ==
  /\ pc \notin {"config", "current_branch", "default_branch", "done"}
       => BranchContextOk
  /\ Acted => BranchContextOk
  /\ last_call = Call("git branch --show-current", "")
       => /\ pc = "done"
          /\ result = Failure(Err("User", "Not on a branch", NoRaw))
          /\ ~Acted
  /\ (base_branch # "" /\ current_branch = base_branch)
       => /\ pc = "done"
          /\ result = Failure(Err("User", "On the base branch", NoRaw))
          /\ ~Acted

C14_Witness ==
  /\ pc = "done"
  /\ result.outcome = "created"
  /\ pushed
  /\ current_branch = "feat"
  /\ base_branch = "main"

\* C15: get_default_branch never fails: when `git remote show origin`
\* fails or prints no "HEAD branch:" line the base branch is "main",
\* otherwise it is the branch the command names; the run goes on to the
\* base-branch check and never ends with an error of that command.
C15_DefaultBranchFallback ==
  /\ result.err.what # "git remote show origin"
  /\ last_call.cmd = "git remote show origin"
       => /\ base_branch = IF last_call.out \in {"fail", "no-head-line"}
                           THEN "main"
                           ELSE last_call.out
          /\ IF current_branch = base_branch
             THEN /\ pc = "done"
                  /\ result = Failure(Err("User", "On the base branch",
                                          NoRaw))
             ELSE pc = "existing_pr" /\ result = Running

C15_Witness ==
  /\ last_call = Call("git remote show origin", "fail")
  /\ base_branch = "main"
  /\ current_branch = "feat"
  /\ pc = "existing_pr"

\* The commands of the collaborator calls the policy names, apart from the
\* two documented fallbacks and the template read.
PolicyCommands ==
  { "gh pr view", "git ls-remote", "git status -sb", "git push -u origin",
    "gh pr create" }

\* A failing command ended the run with the error of that command.
Surfaced(cmd) ==
  pc = "done" /\ result = Failure(Err("Git", cmd, NoRaw))

\* A failing generation call ended the run with the error send_message
\* returned.
GenerationSurfaced ==
  (last_call.cmd = "POST /v1/messages"
     /\ last_call.out \in TransportFailures)
    => /\ pc = "done"
       /\ result.status = "err"
       /\ result.err.what = last_call.out
       /\ createCalls = 0

\* C16 (as stated): apart from the default-branch detection and the
\* base-range fallbacks no call absorbs a failure: a failure of the
\* existing-PR lookup, the remote-branch check, the unpushed-commit check,
\* a template read, the push, a generation call or the PR creation ends the
\* run with that error.
C16_NothingElseSwallowed ==
  /\ []((last_call.out = "fail" /\ last_call.cmd \in PolicyCommands)
          => Surfaced(last_call.cmd))
  /\ []GenerationSurfaced
  /\ [][(pc = "join" /\ tpc' = tpc + 1 /\ template' = None)
          => pc' = "done" /\ result'.status = "err"]_vars

\* C16 (amended): four probes absorb a failure as well: a failed
\* `gh pr view` counts as no PR, a failed `git ls-remote` as a missing
\* remote branch, a failed `git status` as nothing unpushed, and an
\* unreadable template path is skipped; in each case the run goes on.  A
\* failure of the current-branch query, of the push, of a generation call
\* or of the PR creation ends the run with that error.
C16_ProbesAbsorbOthersSurface ==
  /\ []((last_call.out = "fail"
           /\ last_call.cmd \in { "git branch --show-current",
                                  "git push -u origin", "gh pr create" })
          => Surfaced(last_call.cmd))
  /\ []GenerationSurfaced
  /\ [](last_call = Call("gh pr view", "fail")
          => /\ existing_pr = None
             /\ result = Running
             /\ pc \in {"remote_exists", "gather"})
  /\ [](last_call = Call("git ls-remote", "fail")
          => /\ remote_exists = Some(FALSE)
             /\ result = Running
             /\ pc = "unpushed")
  /\ [](last_call = Call("git status -sb", "fail")
          => /\ has_unpushed = Some(FALSE)
             /\ result = Running
             /\ pc = "push_decision")
  /\ [][(pc = "join" /\ tpc' = tpc + 1 /\ template' = None)
          => pc' = "join" /\ result' = Running]_vars

\* The existing-PR lookup has failed and the run goes on.
C16_Witness ==
  /\ last_call = Call("gh pr view", "fail")
  /\ existing_pr = None
  /\ pc = "remote_exists"
  /\ result = Running

\* The arguments create_pr gets for the content c.
SubmissionOf(c) ==
  [title |-> c.title, body |-> c.body, base |-> base_branch,
   head |-> current_branch]

\* C17: create_pr is called at most once in a run; the call carries the
\* title and body of the current content, which is the one generated last,
\* with base_branch as base and current_branch as head; when the command
\* fails the run ends with its error, and when it succeeds the run ends
\* successfully with the URL the command printed.
C17_SubmitOnce ==
  /\ [](createCalls <= 1)
  /\ [][createCalls' # createCalls
          => /\ createCalls' = 1
             /\ pc' = "create"
             /\ createArgs' = SubmissionOf(pr_content')
             /\ response_text # None
                  => pr_content' = ContentOf(response_text[1])
             /\ response_text = None
                  => /\ pr_content'.title = pr_content.title
                     /\ pr_content'.body = pr_content.body]_vars
  /\ [](createCalls = 1 => createArgs = SubmissionOf(pr_content))
  /\ [](last_call.cmd = "gh pr create"
          => /\ pc = "done"
             /\ createCalls = 1
             /\ result = IF last_call.out = "fail"
                         THEN Failure(Err("Git", "gh pr create", NoRaw))
                         ELSE Success("created", last_call.out))
  /\ [](result.outcome = "created" => last_call.cmd = "gh pr create")

\* A PR has been created from a revised content.
C17_Witness ==
  /\ pc = "done"
  /\ result = Success("created", "https://pr/2")
  /\ createCalls = 1
  /\ genCalls = 2
  /\ createArgs =
       [title |-> "t2", body |-> "b2", base |-> "main", head |-> "feat"]

\* C18: with --yes and without --dry-run the decision prompt is never
\* issued and no revision call is made; the step that leaves the
\* clarification loop (a decoded content that asks nothing, or an empty
\* answer) goes straight to create_pr with the current content.
C18_AutoAccept ==
  /\ []((yes /\ ~dry_run)
          => /\ pc \notin {"decide", "classify", "gen_revise",
                           "decode_revise"}
             /\ response = None
             /\ prompt # None => prompt[1].mode = "new")
  /\ [][(/\ yes /\ ~dry_run
         /\ pc \in {"decode_first", "decode_clarify", "clar_answer"}
         /\ result'.status = "running"
         /\ ~clarification_pending(pr_content'))
          => /\ pc' = "create"
             /\ createCalls' = 1
             /\ createArgs' = SubmissionOf(pr_content')]_vars

\* Auto-accept after one clarification round.
C18_Witness ==
  /\ yes /\ ~dry_run
  /\ pc = "create"
  /\ genCalls = 2
  /\ createCalls = 1
  /\ createArgs.title = pr_content.title

\* The bytes of a text, each named by its character and its position in
\* the character's encoding.
CharBytes(ch) == [i \in 1..utf8_len(ch) |-> << ch, i >>]

RECURSIVE Repeated(_, _)
Repeated(s, n) == IF n = 0 THEN <<>> ELSE s \o Repeated(s, n - 1)

RECURSIVE Bytes(_)
Bytes(text) ==
  IF text = <<>> THEN <<>>
  ELSE Repeated(CharBytes(Head(text).ch), Head(text).n) \o Bytes(Tail(text))

DigitValue(c) == CHOOSE k \in 0..9 : Digit(k) = c

RECURSIVE ParseDecimal(_)
ParseDecimal(digits) ==
  IF digits = <<>> THEN 0
  ELSE 10 * ParseDecimal(SubSeq(digits, 1, Len(digits) - 1))
       + DigitValue(digits[Len(digits)])

\* The bytes b are the marker for n omitted characters.
IsMarker(b, n) ==
  LET t == [i \in 1..Len(b) |-> b[i][1]]
      lead == Len(MarkerLead)
      trail == Len(MarkerTrail)
  IN /\ Len(t) > lead + trail
     /\ SubSeq(t, 1, lead) = MarkerLead
     /\ SubSeq(t, Len(t) - trail + 1, Len(t)) = MarkerTrail
     /\ \A i \in (lead + 1)..(Len(t) - trail) :
          \E k \in 0..9 : t[i] = Digit(k)
     /\ ParseDecimal(SubSeq(t, lead + 1, Len(t) - trail)) = n

\* What the contract of truncate_diff says of the value r returned for the
\* text d and the limit m.
TruncateContract(d, m, r) ==
  IF Len(Bytes(d)) <= m
  THEN r = << d, FALSE >>
  ELSE /\ r[2] = TRUE
       /\ SubSeq(Bytes(r[1]), 1, m) = SubSeq(Bytes(d), 1, m)
       /\ IsMarker(SubSeq(Bytes(r[1]), m + 1, Len(Bytes(r[1]))),
                   Len(Bytes(d)) - m)

\* C19: for every diff d and every limit m, truncate_diff(d, m) returns
\* (d, false) when len(d) <= m, the boundary included; when len(d) > m it
\* returns a text flagged as truncated that starts with the first m bytes
\* of d and whose marker states the omitted count len(d) - m.
C19_TruncateContract ==
  (call.fn = "truncate_diff" /\ ret # None)
    => /\ ~ret[1].panicked
       /\ TruncateContract(call.diff, call.max_size, ret[1].val)

\* The final '/'-separated segment of the path is on the deny list.
IsLockFile(path) == path[Len(path)] \in EXCLUDED_LOCK_FILES

\* C20: filter_lock_files returns exactly the entries of its argument
\* whose final '/'-separated segment is not on the deny list, whatever
\* their directory, in their order and with their repetitions; applied to
\* its own result it returns that result unchanged.
C20_FilterIsSubsequence ==
  /\ []((call.fn = "filter_lock_files" /\ ret # None /\ call.round = 1)
          => ret[1] = SelectSeq(call.files, LAMBDA f : ~IsLockFile(f)))
  /\ [][(call.fn = "filter_lock_files" /\ call.round = 1
           /\ call'.round = 2)
          => call'.files = ret[1] /\ ret' = ret]_vars

\* A nested lock file has been removed; the entry under a directory
\* that is named like a lock file, and the repeated entry, are kept.
C20_Witness ==
  /\ call.fn = "filter_lock_files"
  /\ call.round = 1
  /\ call.files = << <<"frontend", "yarn.lock">>,
                     <<"Cargo.lock", "notes.md">>,
                     <<"Cargo.lock", "notes.md">> >>
  /\ ret = Some(<< <<"Cargo.lock", "notes.md">>,
                   <<"Cargo.lock", "notes.md">> >>)

\* Each of the four gathering calls has returned, with a value or an error.
AllReturned ==
  /\ \A g \in Gatherers : gpc[g] \in {"ok", "err"}
  /\ tpc > Len(template_paths) \/ template # None

\* C21: the four gathering calls are started in one step; while one of
\* them is still pending no prompt is built and no generation call is
\* made, whatever the order in which they return; when commits, diff or
\* changed-files has failed, the run ends with an error and without a
\* generation call.
C21_JointlyAwaited ==
  /\ [][pc = "gather"
          => /\ pc' = "join"
             /\ \A g \in Gatherers :
                  gpc'[g] = "primary" /\ Len(gcmds'[g]) = 1
             /\ tpc' = 1]_vars
  /\ [](pc = "join" => genCalls = 0 /\ prompt = None)
  /\ [][(pc = "join" /\ pc' # "join")
          => /\ AllReturned
             /\ IF \E g \in Gatherers : gpc[g] = "err"
                THEN /\ pc' = "done"
                     /\ result'.status = "err"
                     /\ result'.err.kind = "Git"
                     /\ genCalls' = 0
                     /\ prompt' = None
                ELSE TRUE]_vars
  /\ [](genCalls > 0 => commits # "" /\ diff # "")

\* A comparison has failed and the join still waits for another one.
C21_Witness ==
  /\ pc = "join"
  /\ gpc["diff"] = "err"
  /\ gpc["files"] = "ok"
  /\ gpc["commits"] = "primary"
  /\ tpc = 1
  /\ genCalls = 0

\* The positions of the revision loop and of the clarification loop.
RevisionLoop == {"decide", "classify", "gen_revise", "decode_revise"}
ClarificationLoop ==
  {"clar_prompt", "clar_answer", "gen_clarify", "decode_clarify"}

\* C22: an update round never asks a further question: once the run is in
\* the revision loop it never issues a clarification prompt, and the
\* content a revision round yields has needs_clarification false (or
\* absent, which counts as false).
C22_UpdateNeverAsks ==
  /\ [][(pc \in RevisionLoop) => (pc' \notin ClarificationLoop)]_vars
  /\ [][(pc = "decode_revise" /\ pc' = "decide")
          => pr_content'.needs_clarification # Some(TRUE)]_vars

\* C23: when every call returns and the operator, however often asked,
\* eventually gives an empty clarification answer and eventually a decisive
\* reply, every run ends: with a PR created or found, cancelled, stopped
\* by --dry-run, or with an error, an abort of the run included.
C23_Terminates ==
  <>(/\ pc = "done"
     /\ \/ result.status \in {"err", "panic"}
        \/ result.outcome \in {"created", "cancelled", "dry-run",
                               "existing-pr"})

\* A run through the round cap of the bounded model: two clarification
\* rounds, then an empty answer, a decisive reply and the PR.
C23_Witness ==
  /\ pc = "done"
  /\ result.outcome = "created"
  /\ genCalls = MaxGenCalls
  /\ answer = Some(<<>>)
  /\ response # None

\* C24: whenever create_pr has been called, by the operator's acceptance
\* or by --yes, the content submitted is not clarification-pending: its
\* needs_clarification is false or absent.
C24_SubmittedNotPending ==
  createCalls > 0
    => /\ createArgs = SubmissionOf(pr_content)
       /\ pr_content.needs_clarification # Some(TRUE)

\* C25: the reply at the decision prompt is classified on its trimmed,
\* lower-cased form alone: a reply that trims to nothing is accepted like
\* an empty one, " Yes " like yes and "NO" like no, and none of them leads
\* to a revision call.
C25_TrimmedClassification ==
  [][(/\ pc = "classify"
      /\ \/ trim(response[1]) = <<>>
         \/ SaysYes(response[1])
         \/ SaysNo(response[1]))
       => /\ genCalls' = genCalls
          /\ pc' # "gen_revise"
          /\ IF SaysNo(response[1])
             THEN pc' = "done" /\ result' = Success("cancelled", "")
             ELSE pc' = "create" /\ createCalls' = createCalls + 1]_vars


\* C26: cutting a diff never fails: whatever the diff, and wherever the
\* cutoff falls, truncate_diff and the construction of the new-PR prompt
\* return instead of panicking, and the diff put into the new-PR prompt has
\* at most 8000 bytes.
C26_TruncationNeverFails ==
  (ret # None /\ call.fn \in {"truncate_diff", "prompt_diff"})
    => /\ ~ret[1].panicked
       /\ call.fn = "prompt_diff" => len(ret[1].val) <= 8000

====
